---- MODULE Spec2Model ----
(***************************************************************************)
(* A model of the long-term fact memory of chatbot.py: the normalizer, the *)
(* merger, the deduplicator, the extraction gateway and the chat loop that *)
(* persists the store.                                                     *)
(*                                                                         *)
(* Python values are modelled as tagged records:                           *)
(*   a str   is [t |-> "str",  s |-> <<"c", "h", ...>>]  (one char each)   *)
(*   an int  is [t |-> "num",  n |-> 7]                                    *)
(*   None    is [t |-> "null"]                                             *)
(*   a list  is [t |-> "list", l |-> <<v1, v2, ...>>]                      *)
(*   a dict  is [t |-> "dict", keys |-> <<k1, ...>>, at |-> [k |-> v]]     *)
(* where keys is the dict's insertion order and at its content.            *)
(***************************************************************************)
EXTENDS Integers, Sequences, FiniteSets, TLC

VARIABLES
    facts,        \* chat(): the in-memory store (the object extract_facts mutates)
    clock,        \* the wall clock read by timestamp()
    op,           \* the last operation applied
    pre,          \* the store the last operation was given
    cand,         \* the candidate set of the last merge_facts call
    raised,       \* the exception the last operation raised, or "none"
    pc,           \* chat(): where the main thread is
    xpc,          \* where the extraction thread is
    turn,         \* how many turns have started
    user_input,   \* chat(): the utterance of the turn
    response,     \* extract_facts(): what ollama.chat returned
    facts_result, \* chat(): facts_result["value"]
    seen_facts,   \* the store build_prompt read for the turn's prompt
    ai_output,    \* chat(): the reply streamed so far
    history,      \* chat(): the deque of turn records
    save_file,    \* the content of SAVE_FILE
    facts_file,   \* the content of FACTS_FILE
    turn_start    \* the store when the turn's utterance was read

chatvars ==
    <<pc, xpc, turn, user_input, response, facts_result, seen_facts, ai_output,
      history, save_file, facts_file, turn_start>>

vars == <<facts, clock, op, pre, cand, raised, chatvars>>

-----------------------------------------------------------------------------
(* Bounds of the model *)

\* the clock stops here: at most MaxClock calls of timestamp() in a behaviour
\* of the merger, the deduplicator and the normalizer taken alone
MaxClock == 3

\* at most MaxTurns utterances are read in a behaviour of the chat loop
MaxTurns == 2

\* the lists handed to dedupe_facts alone have at most MaxList entries
MaxList == 3

-----------------------------------------------------------------------------
(* Python values *)

JStr(s) == [t |-> "str", s |-> s]
JNum(n) == [t |-> "num", n |-> n]
JNull == [t |-> "null"]
JList(l) == [t |-> "list", l |-> l]
EmptyDict == [t |-> "dict", keys |-> <<>>, at |-> <<>>]

IsStr(v) == v.t = "str"
IsList(v) == v.t = "list"
IsDict(v) == v.t = "dict"

\* k in d
HasKey(d, k) == k \in DOMAIN d.at

\* d[k] = v: an existing key keeps its place, a new key goes last
DictSet(d, k, v) ==
    IF HasKey(d, k)
    THEN [d EXCEPT !.at = [d.at EXCEPT ![k] = v]]
    ELSE [d EXCEPT !.keys = Append(d.keys, k),
                   !.at = [x \in DOMAIN d.at \cup {k} |-> IF x = k THEN v ELSE d.at[x]]]

\* del d[k]
DictDel(d, k) ==
    [d EXCEPT !.keys = SelectSeq(d.keys, LAMBDA x : x # k),
              !.at = [x \in DOMAIN d.at \ {k} |-> d.at[x]]]

\* the dict literal {k: v}
Dict1(k, v) == DictSet(EmptyDict, k, v)

\* the dict literal {k1: v1, k2: v2}
Dict2(k1, v1, k2, v2) == DictSet(Dict1(k1, v1), k2, v2)

\* Python's == on dicts compares content, not insertion order
RECURSIVE PyEq(_, _)
PyEq(a, b) ==
    IF a.t # b.t THEN FALSE
    ELSE IF a.t = "dict"
         THEN /\ DOMAIN a.at = DOMAIN b.at
              /\ \A k \in DOMAIN a.at : PyEq(a.at[k], b.at[k])
    ELSE IF a.t = "list"
         THEN /\ Len(a.l) = Len(b.l)
              /\ \A i \in 1..Len(a.l) : PyEq(a.l[i], b.l[i])
    ELSE a = b

-----------------------------------------------------------------------------
(* str methods *)

UpperCase ==
    <<"A", "B", "C", "D", "E", "F", "G", "H", "I", "J", "K", "L", "M",
      "N", "O", "P", "Q", "R", "S", "T", "U", "V", "W", "X", "Y", "Z">>
LowerCase ==
    <<"a", "b", "c", "d", "e", "f", "g", "h", "i", "j", "k", "l", "m",
      "n", "o", "p", "q", "r", "s", "t", "u", "v", "w", "x", "y", "z">>

\* one character of str.lower()
LowerChar(c) ==
    IF \E i \in 1..Len(UpperCase) : UpperCase[i] = c
    THEN LowerCase[CHOOSE i \in 1..Len(UpperCase) : UpperCase[i] = c]
    ELSE c

\* str.lower()
Lower(s) == [i \in 1..Len(s) |-> LowerChar(s[i])]

IsSpace(c) == c = " "

\* str.strip(): drop the leading and the trailing whitespace
Strip(s) ==
    LET keep == {i \in 1..Len(s) : ~IsSpace(s[i])}
    IN  IF keep = {} THEN <<>>
        ELSE LET lo == CHOOSE i \in keep : \A j \in keep : i <= j
                 hi == CHOOSE i \in keep : \A j \in keep : j <= i
             IN  SubSeq(s, lo, hi)

\* a in b, for two str
IsSubstr(a, b) ==
    \E i \in 0..(Len(b) - Len(a)) : SubSeq(b, i + 1, i + Len(a)) = a

-----------------------------------------------------------------------------
(* timestamp() *)

Digits == <<"0", "1", "2", "3", "4", "5", "6", "7", "8", "9">>

\* datetime.utcnow().isoformat() at clock n: a str whose order is the clock's
timestamp(n) == JStr(<<"T", Digits[(n \div 10) + 1], Digits[(n % 10) + 1]>>)

\* the entry {"value": v, "timestamp": ts}
Entry(v, ts) == Dict2("value", v, "timestamp", ts)

-----------------------------------------------------------------------------
(* merge_facts *)

\* A faulty variant: the set with Name left out
SingletonsWithoutName ==
    {"Age", "Gender", "Location", "Nationality", "Ethnicity", "Mood"}

SINGLETON_CATEGORIES ==
    {"Age", "Name", "Gender", "Location", "Nationality", "Ethnicity", "Mood"}

\* entry["value"] can be read: entry is a dict that has the key
Readable(entry) == IsDict(entry) /\ HasKey(entry, "value")

\* v["value"] if isinstance(v, dict) and "value" in v else v
FactValue(v) == IF IsDict(v) /\ HasKey(v, "value") THEN v.at["value"] ELSE v

\* The running state of a call: the store being mutated in place, the clock,
\* and the exception that ended the call ("none" while it runs).
Running(f, c) == [facts |-> f, clk |-> c, err |-> "none"]

\* A faulty variant: the contradiction rule that handles a single entry only and leaves
\* a list of the opposite category as it is
RemoveOppositeSingleOnly(st, opp, fact_value) ==
    IF ~HasKey(st.facts, opp) THEN st
    ELSE LET o == st.facts.at[opp]
         IN  IF IsList(o) THEN st
             ELSE IF ~Readable(o) THEN [st EXCEPT !.err = "KeyError"]
             ELSE IF PyEq(o.at["value"], fact_value)
                  THEN [st EXCEPT !.facts = DictDel(@, opp)]
                  ELSE st

\* A faulty variant: the contradiction rule that deletes the opposite category whenever
\* one of its entries has the asserted value
RemoveOppositeAll(st, opp, fact_value) ==
    IF ~HasKey(st.facts, opp) THEN st
    ELSE LET o == st.facts.at[opp]
             l == IF IsList(o) THEN o.l ELSE <<o>>
         IN  IF \E i \in 1..Len(l) : ~Readable(l[i])
             THEN [st EXCEPT !.err = "KeyError"]
             ELSE IF \E i \in 1..Len(l) : PyEq(l[i].at["value"], fact_value)
                  THEN [st EXCEPT !.facts = DictDel(@, opp)]
                  ELSE st

\* A faulty variant: the contradiction rule that keeps the key of a list it has
\* emptied
RemoveOppositeKeepingKey(st, opp, fact_value) ==
    IF ~HasKey(st.facts, opp) THEN st
    ELSE LET o == st.facts.at[opp]
         IN  IF IsList(o)
             THEN IF \E i \in 1..Len(o.l) : ~Readable(o.l[i])
                  THEN [st EXCEPT !.err = "KeyError"]
                  ELSE [st EXCEPT !.facts =
                            DictSet(@, opp,
                                    JList(SelectSeq(o.l,
                                              LAMBDA d : ~PyEq(d.at["value"], fact_value))))]
             ELSE IF ~Readable(o) THEN [st EXCEPT !.err = "KeyError"]
             ELSE IF PyEq(o.at["value"], fact_value)
                  THEN [st EXCEPT !.facts = DictDel(@, opp)]
                  ELSE st

\* the contradiction rule: drop from category opp the entries whose value
\* equals fact_value; an emptied list deletes the key
RemoveOpposite(st, opp, fact_value) ==
    IF ~HasKey(st.facts, opp) THEN st
    ELSE LET o == st.facts.at[opp]
         IN  IF IsList(o)
             THEN IF \E i \in 1..Len(o.l) : ~Readable(o.l[i])
                  THEN [st EXCEPT !.err = "KeyError"]
                  ELSE LET kept == SelectSeq(o.l,
                                       LAMBDA d : ~PyEq(d.at["value"], fact_value))
                       IN  IF kept = <<>>
                           THEN [st EXCEPT !.facts = DictDel(@, opp)]
                           ELSE [st EXCEPT !.facts = DictSet(@, opp, JList(kept))]
             ELSE IF ~Readable(o) THEN [st EXCEPT !.err = "KeyError"]
             ELSE IF PyEq(o.at["value"], fact_value)
                  THEN [st EXCEPT !.facts = DictDel(@, opp)]
                  ELSE st

\* flat_list: one level of nested lists spliced in
RECURSIVE FlattenOnce(_)
FlattenOnce(l) ==
    IF l = <<>> THEN <<>>
    ELSE IF IsList(Head(l)) THEN Head(l).l \o FlattenOnce(Tail(l))
    ELSE <<Head(l)>> \o FlattenOnce(Tail(l))

\* A faulty variant: the membership test that always lets the fresh entry in
AllDifferAlways(l, fact_value) == "yes"

\* all(entry["value"] != fact_value for entry in l): "yes", "no", or "raise"
\* when an entry that cannot be read comes before any entry with an equal value
RECURSIVE AllDiffer(_, _)
AllDiffer(l, fact_value) ==
    IF l = <<>> THEN "yes"
    ELSE IF ~Readable(Head(l)) THEN "raise"
    ELSE IF PyEq(Head(l).at["value"], fact_value) THEN "no"
    ELSE AllDiffer(Tail(l), fact_value)

\* A faulty variant: the accumulation step that puts the fresh entry in the
\* place of an entry with an equal value, so that a repeated value gets a new
\* timestamp
AccumulateRefreshing(st, k, fact_value, new_fact) ==
    IF ~HasKey(st.facts, k)
    THEN [st EXCEPT !.facts = DictSet(@, k, new_fact)]
    ELSE LET cur == st.facts.at[k]
         IN  IF ~IsDict(cur) /\ ~IsList(cur)
             THEN [st EXCEPT !.err = "TypeError"]
             ELSE LET flat == FlattenOnce(IF IsDict(cur) THEN <<cur>> ELSE cur.l)
                      all == AllDiffer(flat, fact_value)
                      kept == IF all = "yes" THEN Append(flat, new_fact)
                              ELSE IF all = "raise" THEN flat
                              ELSE [i \in 1..Len(flat) |->
                                        IF Readable(flat[i])
                                           /\ PyEq(flat[i].at["value"], fact_value)
                                        THEN new_fact ELSE flat[i]]
                  IN  [st EXCEPT !.facts = DictSet(@, k, JList(kept)),
                                 !.err = IF all = "raise" THEN "KeyError" ELSE @]

\* the accumulation step: promote a single entry to a list, flatten, append the
\* fresh entry unless an entry with an equal value is there
Accumulate(st, k, fact_value, new_fact) ==
    IF ~HasKey(st.facts, k)
    THEN [st EXCEPT !.facts = DictSet(@, k, new_fact)]
    ELSE LET cur == st.facts.at[k]
         IN  IF ~IsDict(cur) /\ ~IsList(cur)
             THEN [st EXCEPT !.err = "TypeError"]
             ELSE LET flat == FlattenOnce(IF IsDict(cur) THEN <<cur>> ELSE cur.l)
                      all == AllDiffer(flat, fact_value)
                      kept == IF all = "yes" THEN Append(flat, new_fact) ELSE flat
                  IN  [st EXCEPT !.facts = DictSet(@, k, JList(kept)),
                                 !.err = IF all = "raise" THEN "KeyError" ELSE @]

\* one (k, v) pair whose v is not a list: the body of the loop of merge_facts
ApplyFact(st, k, v) ==
    LET fact_value == FactValue(v)
        new_fact == Entry(fact_value, timestamp(st.clk))
        ticked == [st EXCEPT !.clk = @ + 1]
    IN  IF k \in SINGLETON_CATEGORIES
        THEN [ticked EXCEPT !.facts = DictSet(@, k, new_fact)]
        ELSE LET cleared ==
                     IF k = "Preference" THEN RemoveOpposite(ticked, "Dislike", fact_value)
                     ELSE IF k = "Dislike" THEN RemoveOpposite(ticked, "Preference", fact_value)
                     ELSE ticked
             IN  IF cleared.err # "none" THEN cleared
                 ELSE Accumulate(cleared, k, fact_value, new_fact)

\* one (k, v) pair of the candidate: a list is merged item by item through
\* merge_facts(existing, {k: item}), which handles nested lists the same way
RECURSIVE MergePair(_, _, _)
RECURSIVE MergeItems(_, _, _)
MergePair(st, k, v) ==
    IF st.err # "none" THEN st
    ELSE IF IsList(v) THEN MergeItems(st, k, v.l)
    ELSE ApplyFact(st, k, v)

MergeItems(st, k, items) ==
    IF items = <<>> THEN st
    ELSE MergeItems(MergePair(st, k, Head(items)), k, Tail(items))

\* for k, v in new.items(), in the candidate's insertion order
RECURSIVE MergeKeys(_, _, _)
MergeKeys(st, new, keys) ==
    IF keys = <<>> THEN st
    ELSE MergeKeys(MergePair(st, Head(keys), new.at[Head(keys)]), new, Tail(keys))

\* merge_facts(existing, new); new that is not a dict has no .items()
merge_facts(st, new) ==
    IF ~IsDict(new) THEN [st EXCEPT !.err = "AttributeError"]
    ELSE MergeKeys(st, new, new.keys)

-----------------------------------------------------------------------------
(* dedupe_facts *)

\* A faulty variant: the loop that drops an entry only when its value is inside
\* one kept so far, and not when one kept so far is inside its value
RECURSIVE DedupeListOneWay(_, _, _)
DedupeListOneWay(l, seen, unique) ==
    IF l = <<>> THEN [unique |-> unique, err |-> "none"]
    ELSE LET entry == Head(l)
         IN  IF ~Readable(entry) THEN [unique |-> unique, err |-> "KeyError"]
             ELSE IF ~IsStr(entry.at["value"])
                  THEN [unique |-> unique, err |-> "AttributeError"]
             ELSE LET val == Lower(Strip(entry.at["value"].s))
                  IN  IF \E i \in 1..Len(seen) : IsSubstr(val, seen[i])
                      THEN DedupeListOneWay(Tail(l), seen, unique)
                      ELSE DedupeListOneWay(Tail(l), Append(seen, val),
                                            Append(unique, entry))

\* the loop over one list: seen holds the stripped lowercase values kept so far
RECURSIVE DedupeList(_, _, _)
DedupeList(l, seen, unique) ==
    IF l = <<>> THEN [unique |-> unique, err |-> "none"]
    ELSE LET entry == Head(l)
         IN  IF ~Readable(entry) THEN [unique |-> unique, err |-> "KeyError"]
             ELSE IF ~IsStr(entry.at["value"])
                  THEN [unique |-> unique, err |-> "AttributeError"]
             ELSE LET val == Lower(Strip(entry.at["value"].s))
                  IN  IF \E i \in 1..Len(seen) :
                              IsSubstr(val, seen[i]) \/ IsSubstr(seen[i], val)
                      THEN DedupeList(Tail(l), seen, unique)
                      ELSE DedupeList(Tail(l), Append(seen, val), Append(unique, entry))

\* for k, v in list(facts.items()): a list is replaced by its unique entries;
\* an exception leaves the categories before it deduplicated, the rest as is
RECURSIVE DedupeKeys(_, _)
DedupeKeys(st, keys) ==
    IF keys = <<>> \/ st.err # "none" THEN st
    ELSE LET k == Head(keys)
             v == st.facts.at[k]
         IN  IF ~IsList(v) THEN DedupeKeys(st, Tail(keys))
             ELSE LET r == DedupeList(v.l, <<>>, <<>>)
                  IN  IF r.err # "none" THEN [st EXCEPT !.err = r.err]
                      ELSE DedupeKeys([st EXCEPT !.facts = DictSet(@, k, JList(r.unique))],
                                      Tail(keys))

dedupe_facts(st) == DedupeKeys(st, st.facts.keys)

-----------------------------------------------------------------------------
(* Inputs: the candidate sets and the loaded stores the model draws from *)

sA == JStr(<<"a">>)
sB == JStr(<<"b">>)

\* the oracle's wrapped form {"value": v, "significance": n}
Wrapped(v, n) == Dict2("value", v, "significance", JNum(n))

\* what a candidate gives a singleton category: bare, wrapped, lists
NameValues ==
    { sA, sB, Wrapped(sA, 90), JList(<<>>), JList(<<sA, sB>>) }

\* what a candidate gives a multi-value category: also a number, a repeated
\* value, a nested list
HobbyValues ==
    { sA, sB, JNum(7), JList(<<sB, sB>>), JList(<<JList(<<sA>>)>>) }

\* what a candidate gives Preference or Dislike
TasteValues ==
    { sA, sB, Wrapped(sA, 90), JList(<<sA, sB>>) }

Candidates ==
    { Dict1("Name", v) : v \in NameValues }
    \cup { Dict1("Hobby", v) : v \in HobbyValues }
    \cup { Dict1(k, v) : k \in {"Preference", "Dislike"}, v \in TasteValues }
    \cup { Dict2("Preference", sA, "Dislike", sA),
           Dict2("Dislike", sB, "Preference", JList(<<sA, sB>>)),
           Dict2("Hobby", sA, "Name", sB) }

\* a timestamp written by an earlier run of the program
Old == JStr(<<"T", "-", "1">>)

\* stores as normalize_facts hands them over after loading the facts file:
\* every category holds an entry or a list of entries
LoadedStores ==
    { EmptyDict,
      Dict1("Name", Entry(sA, Old)),
      Dict1("Name", JList(<<Entry(sA, Old), Entry(sB, Old)>>)),
      Dict2("Preference", Entry(sA, Old), "Dislike", Entry(sA, Old)),
      Dict2("Dislike", JList(<<Entry(sA, Old), Entry(sB, Old)>>), "Hobby", Entry(sB, Old)),
      Dict2("Hobby", JList(<<Entry(sA, Old), Entry(sA, Old)>>), "Name", Entry(sB, Old)) }

-----------------------------------------------------------------------------
(* The merger and the deduplicator as operations on the store *)

\* the chat loop is not running
NoChat ==
    /\ pc = "none"
    /\ xpc = "none"
    /\ turn = 0
    /\ user_input = <<>>
    /\ response = JNull
    /\ facts_result = JNull
    /\ seen_facts = JNull
    /\ ai_output = <<>>
    /\ history = <<>>
    /\ save_file = EmptyDict
    /\ facts_file = EmptyDict
    /\ turn_start = EmptyDict

\* merge_facts(facts, new)
Merge(new) ==
    \E r \in {merge_facts(Running(facts, clock), new)} :
        /\ r.clk <= MaxClock
        /\ facts' = r.facts
        /\ clock' = r.clk
        /\ raised' = r.err
        /\ op' = "merge"
        /\ pre' = facts
        /\ cand' = new
        /\ UNCHANGED chatvars

\* dedupe_facts(facts)
Dedupe ==
    \E r \in {dedupe_facts(Running(facts, clock))} :
        /\ facts' = r.facts
        /\ raised' = r.err
        /\ op' = "dedupe"
        /\ pre' = facts
        /\ UNCHANGED <<clock, cand, chatvars>>

InitMerge ==
    /\ facts = EmptyDict
    /\ clock = 0
    /\ op = "init"
    /\ pre = EmptyDict
    /\ cand = EmptyDict
    /\ raised = "none"
    /\ NoChat

InitLoaded ==
    /\ facts \in LoadedStores
    /\ clock = 0
    /\ op = "init"
    /\ pre = facts
    /\ cand = EmptyDict
    /\ raised = "none"
    /\ NoChat

NextMerge ==
    \/ \E new \in Candidates : Merge(new)
    \/ Dedupe

NextLoaded == \E new \in Candidates : Merge(new)

\* merge_facts and dedupe_facts called in any order on a store that starts empty
SpecMerge == InitMerge /\ [][NextMerge]_vars

\* merge_facts called on a store loaded from the facts file
SpecLoaded == InitLoaded /\ [][NextLoaded]_vars

-----------------------------------------------------------------------------
(* Reading a store *)

Absent == [t |-> "absent"]

\* what the store holds under category k
Held(f, k) == IF HasKey(f, k) THEN f.at[k] ELSE Absent

\* the entries of category k, in order (a single entry is a sequence of one)
EntriesOf(f, k) ==
    IF ~HasKey(f, k) THEN <<>>
    ELSE IF IsList(f.at[k]) THEN f.at[k].l
    ELSE <<f.at[k]>>

\* the values held under category k
ValuesOf(f, k) ==
    {EntriesOf(f, k)[i].at["value"] : i \in 1..Len(EntriesOf(f, k))}

\* how many entries of category k have value v
CountOf(f, k, v) ==
    Cardinality({i \in 1..Len(EntriesOf(f, k)) : EntriesOf(f, k)[i].at["value"] = v})

IsScalar(v) == v.t \in {"str", "num"}

\* the values a candidate value applies, in the order merge_facts applies them
RECURSIVE Applied(_)
RECURSIVE AppliedAll(_)
Applied(v) == IF IsList(v) THEN AppliedAll(v.l) ELSE <<FactValue(v)>>

AppliedAll(l) == IF l = <<>> THEN <<>> ELSE Applied(Head(l)) \o AppliedAll(Tail(l))

\* the (category, value) assertions of a candidate, in application order
RECURSIVE Assertions(_, _)
Assertions(new, keys) ==
    IF keys = <<>> THEN <<>>
    ELSE [i \in 1..Len(Applied(new.at[Head(keys)])) |->
              [k |-> Head(keys), v |-> Applied(new.at[Head(keys)])[i]]]
         \o Assertions(new, Tail(keys))

Opposite(k) ==
    IF k = "Preference" THEN "Dislike" ELSE IF k = "Dislike" THEN "Preference" ELSE "none"

-----------------------------------------------------------------------------
(* C1 *)

ClaimedSingletons ==
    {"Name", "Age", "Gender", "Location", "Nationality", "Ethnicity", "Mood"}

\* C1 as stated: after a merge whose candidate contains a singleton category,
\* the store holds exactly one entry (not a sequence) for it, whose value is the
\* last value the candidate applied for it.
C1_SingletonAfterAnyCandidate ==
    \A k \in ClaimedSingletons :
        (op = "merge" /\ HasKey(cand, k)) =>
            /\ IsDict(Held(facts, k))
            /\ LET a == Applied(cand.at[k])
               IN  a # <<>> => facts.at[k].at["value"] = a[Len(a)]

\* C1 amended: after a merge whose candidate applies at least one value for a
\* singleton category (its value is not an empty list), the store holds exactly
\* one entry, not a sequence, for it, and the entry's value is the last value
\* applied, whatever the category held before.
C1_SingletonOverwrite ==
    \A k \in ClaimedSingletons :
        (op = "merge" /\ HasKey(cand, k) /\ Applied(cand.at[k]) # <<>>) =>
            /\ IsDict(Held(facts, k))
            /\ DOMAIN facts.at[k].at = {"value", "timestamp"}
            /\ LET a == Applied(cand.at[k])
               IN  facts.at[k].at["value"] = a[Len(a)]

\* a list under Name is overwritten by the last of two values of one candidate
C1_Witness ==
    /\ op = "merge"
    /\ IsList(Held(pre, "Name"))
    /\ cand = Dict1("Name", JList(<<sA, sB>>))
    /\ IsDict(Held(facts, "Name"))
    /\ facts.at["Name"].at["value"] = sB

-----------------------------------------------------------------------------
(* C2 *)

\* C2: starting from an empty store, no scalar value is held under both
\* Preference and Dislike; and after a merge every value the candidate asserted
\* under one of the two (and did not assert under the other later in the same
\* candidate) is present under the asserted category and absent from the other.
C2_NoContradiction ==
    /\ \A v \in ValuesOf(facts, "Preference") \cap ValuesOf(facts, "Dislike") :
           ~IsScalar(v)
    /\ op = "merge" =>
           LET as == Assertions(cand, cand.keys)
           IN  \A i \in 1..Len(as) :
                   (/\ as[i].k \in {"Preference", "Dislike"}
                    /\ ~\E j \in (i + 1)..Len(as) :
                           as[j].k = Opposite(as[i].k) /\ as[j].v = as[i].v)
                   => /\ as[i].v \in ValuesOf(facts, as[i].k)
                      /\ as[i].v \notin ValuesOf(facts, Opposite(as[i].k))

\* a value is removed from a list of Dislike by asserting it as a Preference
C2_Witness ==
    /\ op = "merge"
    /\ cand = Dict1("Preference", sA)
    /\ IsList(Held(pre, "Dislike"))
    /\ sA \in ValuesOf(pre, "Dislike")
    /\ ValuesOf(facts, "Dislike") = {sB}
    /\ sA \in ValuesOf(facts, "Preference")

-----------------------------------------------------------------------------
(* C3 *)

\* C3: starting from an empty store, no list of a category holds two entries
\* with equal scalar value; and after merging one scalar value under a
\* multi-value category, exactly one entry of the category has that value, also
\* when the value was merged just before.
C3_NoDuplicateValues ==
    /\ \A k \in DOMAIN facts.at :
           IsList(facts.at[k]) =>
               \A i, j \in 1..Len(facts.at[k].l) :
                   (i # j /\ IsScalar(facts.at[k].l[i].at["value"]))
                   => facts.at[k].l[i].at["value"] # facts.at[k].l[j].at["value"]
    /\ \A k \in DOMAIN cand.at :
           (op = "merge" /\ cand.keys = <<k>> /\ k \notin ClaimedSingletons
                /\ IsScalar(cand.at[k]))
           => CountOf(facts, k, cand.at[k]) = 1

\* a value already in a list of two is merged again and the list is unchanged
C3_Witness ==
    /\ op = "merge"
    /\ cand = Dict1("Hobby", sB)
    /\ IsList(Held(pre, "Hobby"))
    /\ sB \in ValuesOf(pre, "Hobby")
    /\ Len(EntriesOf(facts, "Hobby")) = 2
    /\ facts = pre

-----------------------------------------------------------------------------
(* C4 *)

\* C4 as stated: a candidate whose only key is C leaves every category other
\* than C exactly unchanged, Preference and Dislike included.
C4_EveryOtherCategoryUnchanged ==
    \A c \in DOMAIN cand.at :
        (op = "merge" /\ cand.keys = <<c>>) =>
            \A k \in (DOMAIN pre.at \cup DOMAIN facts.at) \ {c} :
                Held(facts, k) = Held(pre, k)

\* what the contradiction rule leaves of a category: the entries whose value is
\* none of vs, in their order; a single entry stays an entry, an emptied
\* category is absent
Without(held, vs) ==
    IF held = Absent THEN Absent
    ELSE IF IsList(held)
         THEN LET kept == SelectSeq(held.l, LAMBDA e : e.at["value"] \notin vs)
              IN  IF kept = <<>> THEN Absent ELSE JList(kept)
    ELSE IF held.at["value"] \in vs THEN Absent ELSE held

\* C4 amended: a candidate whose only key is C leaves every category other than
\* C exactly unchanged, except the opposite category when C is Preference or
\* Dislike: that one loses exactly its entries whose value the candidate
\* asserts, and keeps the others with their values and timestamps.
C4_CategoryIsolation ==
    \A c \in DOMAIN cand.at :
        (op = "merge" /\ cand.keys = <<c>>) =>
            \A k \in (DOMAIN pre.at \cup DOMAIN facts.at) \ {c} :
                IF k = Opposite(c)
                THEN LET a == Applied(cand.at[c])
                     IN  Held(facts, k) = Without(Held(pre, k), {a[i] : i \in 1..Len(a)})
                ELSE Held(facts, k) = Held(pre, k)

\* a Preference removes one of two Dislike entries and leaves Hobby alone
C4_Witness ==
    /\ op = "merge"
    /\ cand = Dict1("Preference", sB)
    /\ Len(EntriesOf(pre, "Dislike")) = 2
    /\ Held(facts, "Dislike") = JList(<<Entry(sA, Old)>>)
    /\ Held(facts, "Hobby") = Entry(sB, Old)

-----------------------------------------------------------------------------
(* normalize_facts *)

\* the result of a normalize_entry call: the value, the clock, the exception
Normed(v, c, e) == [v |-> v, clk |-> c, err |-> e]

RECURSIVE normalize_entry(_, _)
RECURSIVE NormalizeDict(_, _, _, _)
RECURSIVE NormalizeList(_, _, _)

\* {k: normalize_entry(v) for k, v in entry.items()}: keys in order, from acc
NormalizeDict(entry, keys, acc, clk) ==
    IF keys = <<>> THEN Normed(acc, clk, "none")
    ELSE LET r == normalize_entry(entry.at[Head(keys)], clk)
         IN  IF r.err # "none" THEN Normed(acc, r.clk, r.err)
             ELSE NormalizeDict(entry, Tail(keys), DictSet(acc, Head(keys), r.v), r.clk)

\* the loop over a list: a normalized element that is a list is spliced in
NormalizeList(l, flat_list, clk) ==
    IF l = <<>> THEN Normed(JList(flat_list), clk, "none")
    ELSE LET ne == normalize_entry(Head(l), clk)
         IN  IF ne.err # "none" THEN Normed(JList(flat_list), ne.clk, ne.err)
             ELSE NormalizeList(Tail(l),
                                IF IsList(ne.v) THEN flat_list \o ne.v.l
                                ELSE Append(flat_list, ne.v),
                                ne.clk)

normalize_entry(entry, clk) ==
    IF IsStr(entry) THEN Normed(Entry(entry, timestamp(clk)), clk + 1, "none")
    ELSE IF IsDict(entry)
         THEN IF HasKey(entry, "value") /\ HasKey(entry, "timestamp")
              THEN LET val == entry.at["value"]
                       ts == entry.at["timestamp"]
                   IN  IF IsDict(val)
                       THEN LET inner == normalize_entry(val, clk)
                            IN  IF inner.err # "none" THEN inner
                                ELSE IF ~HasKey(inner.v, "value")
                                     THEN Normed(entry, inner.clk, "KeyError")
                                ELSE Normed(Entry(inner.v.at["value"], ts), inner.clk, "none")
                       ELSE Normed(Entry(val, ts), clk, "none")
              ELSE NormalizeDict(entry, entry.keys, EmptyDict, clk)
    ELSE IF IsList(entry) THEN NormalizeList(entry.l, <<>>, clk)
    ELSE Normed(entry, clk, "none")

\* normalize_facts(facts): {k: normalize_entry(v) for k, v in facts.items()}
normalize_facts(f, clk) == NormalizeDict(f, f.keys, EmptyDict, clk)

\* what the facts file may hold for one category: bare strings, entries with
\* a scalar, list or mapping value, extra keys, category maps, lists
RawEntries ==
    { sA, JNum(7), JNull,
      Entry(sA, Old), Entry(JNum(7), Old),
      Entry(JList(<<sA>>), Old),
      Entry(Dict1("value", sA), Old),
      Entry(Dict1("kind", sB), Old),
      Entry(Entry(sB, Old), Old),
      Entry(Wrapped(sA, 90), Old),
      Entry(Entry(Dict1("value", sA), Old), Old),
      DictSet(Entry(sA, Old), "significance", JNum(90)),
      Dict1("value", sA),
      Dict1("kind", sA),
      Dict1("kind", Entry(sA, Old)),
      JList(<<sA, sB>>),
      JList(<<JList(<<sA>>), JList(<<JList(<<sB>>)>>)>>),
      JList(<<Entry(sA, Old), JNum(7)>>),
      JList(<<Entry(sA, Old), Entry(sB, Old)>>),
      JList(<<Entry(Dict1("value", sA), Old)>>) }

\* what load_json(FACTS_FILE, {}) may return
RawStores ==
    {EmptyDict}
    \cup { Dict1(k, e) : k \in {"Name", "Hobby"}, e \in RawEntries }
    \cup { Dict2("Name", sA, "Hobby", JList(<<sB>>)),
           Dict2("Name", Entry(sA, Old), "Hobby", JList(<<Entry(sB, Old)>>)) }

\* facts = normalize_facts(load_json(FACTS_FILE, {})) at the start of chat();
\* a later start of the program normalizes what this one saved. An exception
\* ends the program.
Normalize ==
    /\ raised = "none"
    /\ op \in {"init", "normalize", "renormalize"}
    /\ \E r \in {normalize_facts(facts, clock)} :
        /\ r.clk <= MaxClock
        /\ facts' = IF r.err = "none" THEN r.v ELSE facts
        /\ clock' = r.clk
        /\ raised' = r.err
    /\ op' = IF op = "init" THEN "normalize" ELSE "renormalize"
    /\ pre' = facts
    /\ UNCHANGED <<cand, chatvars>>

InitNorm ==
    /\ facts \in RawStores
    /\ clock = 0
    /\ op = "init"
    /\ pre = facts
    /\ cand = EmptyDict
    /\ raised = "none"
    /\ NoChat

NextNorm == Normalize

\* normalize_facts applied, and applied again, to what the facts file holds
SpecNorm == InitNorm /\ [][NextNorm]_vars

-----------------------------------------------------------------------------
(* C9 *)

\* C9: normalizing a normalized store returns an equal store (so no timestamp
\* is fabricated by the second run) and raises nothing.
C9_NormalizeIdempotent ==
    op = "renormalize" => (raised = "none" /\ PyEq(facts, pre))

-----------------------------------------------------------------------------
(* C10 *)

\* a FactEntry: a mapping with both a value and a timestamp
IsFactEntry(v) == IsDict(v) /\ HasKey(v, "value") /\ HasKey(v, "timestamp")

\* every FactEntry inside v has a value that is neither a mapping nor a sequence
RECURSIVE EntryValuesScalar(_)
EntryValuesScalar(v) ==
    IF IsFactEntry(v) THEN ~IsDict(v.at["value"]) /\ ~IsList(v.at["value"])
    ELSE IF IsDict(v) THEN \A k \in DOMAIN v.at : EntryValuesScalar(v.at[k])
    ELSE IF IsList(v) THEN \A i \in 1..Len(v.l) : EntryValuesScalar(v.l[i])
    ELSE TRUE

\* C10: after normalize_facts completes, the value of every FactEntry of the
\* store is a scalar, never a mapping and never a sequence.
C10_EntryValuesAreScalars ==
    (op \in {"normalize", "renormalize"} /\ raised = "none")
        => EntryValuesScalar(facts)

-----------------------------------------------------------------------------
(* re.search with re.IGNORECASE, for the patterns of extract_facts *)

IsLetter(c) ==
    \E i \in 1..Len(UpperCase) : c = UpperCase[i] \/ c = LowerCase[i]

IsDigit(c) == \E i \in 1..Len(Digits) : c = Digits[i]

\* \w
IsWord(c) == IsLetter(c) \/ IsDigit(c) \/ c = "_"

\* the capture classes [A-Za-z0-9_ ] and [a-zA-Z], and \s
InClass(cls, c) ==
    IF cls = "name" THEN IsWord(c) \/ c = " "
    ELSE IF cls = "alpha" THEN IsLetter(c)
    ELSE IsSpace(c)

\* pattern elements
Lit(s) == [e |-> "lit", s |-> s]
Ws == [e |-> "ws"]
Wb == [e |-> "wb"]
Opt(sub) == [e |-> "opt", sub |-> sub]
Alt(ss) == [e |-> "alt", ss |-> ss]
Cap(cls) == [e |-> "cap", cls |-> cls]

\* the literal s is at position pos of text, ignoring case
LitAt(s, text, pos) ==
    /\ pos + Len(s) - 1 <= Len(text)
    /\ Lower(SubSeq(text, pos, pos + Len(s) - 1)) = Lower(s)

\* the length of the longest run from pos of characters of class cls
RECURSIVE RunLen(_, _, _)
RunLen(cls, text, pos) ==
    IF pos > Len(text) \/ ~InClass(cls, text[pos]) THEN 0
    ELSE 1 + RunLen(cls, text, pos + 1)

\* \b at pos: a word character on exactly one side
BoundaryAt(text, pos) ==
    LET before == pos > 1 /\ IsWord(text[pos - 1])
        after == pos <= Len(text) /\ IsWord(text[pos])
    IN  before # after

\* Every way the elements match text from pos, in the order the backtracking
\* matcher tries them (greedy first): a sequence of [end, cap]; its head is the
\* match re finds from pos.
RECURSIVE MatchFrom(_, _, _, _)
RECURSIVE MatchRun(_, _, _, _, _, _)
RECURSIVE MatchAlt(_, _, _, _, _)

\* a greedy repetition that took n characters, then n - 1, ... down to 1
MatchRun(rest, text, pos, cap, n, capture) ==
    IF n < 1 THEN <<>>
    ELSE MatchFrom(rest, text, pos + n,
                   IF capture THEN SubSeq(text, pos, pos + n - 1) ELSE cap)
         \o MatchRun(rest, text, pos, cap, n - 1, capture)

MatchAlt(ss, rest, text, pos, cap) ==
    IF ss = <<>> THEN <<>>
    ELSE (IF LitAt(Head(ss), text, pos)
          THEN MatchFrom(rest, text, pos + Len(Head(ss)), cap)
          ELSE <<>>)
         \o MatchAlt(Tail(ss), rest, text, pos, cap)

MatchFrom(elems, text, pos, cap) ==
    IF elems = <<>> THEN <<[end |-> pos, cap |-> cap]>>
    ELSE LET h == Head(elems)
             rest == Tail(elems)
         IN  CASE h.e = "lit" ->
                      IF LitAt(h.s, text, pos)
                      THEN MatchFrom(rest, text, pos + Len(h.s), cap)
                      ELSE <<>>
               [] h.e = "alt" -> MatchAlt(h.ss, rest, text, pos, cap)
               [] h.e = "ws" ->
                      MatchRun(rest, text, pos, cap, RunLen("space", text, pos), FALSE)
               [] h.e = "cap" ->
                      MatchRun(rest, text, pos, cap, RunLen(h.cls, text, pos), TRUE)
               [] h.e = "opt" ->
                      MatchFrom(h.sub \o rest, text, pos, cap)
                      \o MatchFrom(rest, text, pos, cap)
               [] h.e = "wb" ->
                      IF BoundaryAt(text, pos)
                      THEN MatchFrom(rest, text, pos, cap)
                      ELSE <<>>

NoMatch == [found |-> FALSE, group |-> <<>>]

\* re.search(pat, text, re.IGNORECASE): the match at the leftmost position
\* that has one; group is match.group(1)
RECURSIVE SearchFrom(_, _, _)
SearchFrom(pat, text, pos) ==
    IF pos > Len(text) + 1 THEN NoMatch
    ELSE LET ms == MatchFrom(pat, text, pos, <<>>)
         IN  IF ms # <<>> THEN [found |-> TRUE, group |-> Head(ms).cap]
             ELSE SearchFrom(pat, text, pos + 1)

re_search(pat, text) == SearchFrom(pat, text, 1)

\* the first pattern of pats that matches text, as the for loops try them
RECURSIVE FirstMatch(_, _)
FirstMatch(pats, text) ==
    IF pats = <<>> THEN NoMatch
    ELSE LET r == re_search(Head(pats), text)
         IN  IF r.found THEN r ELSE FirstMatch(Tail(pats), text)

NEGATION_PATTERNS ==
    << <<Alt(<< <<"d","o","n","'","t">>, <<"d","o"," ","n","o","t">>,
               <<"n","e","v","e","r">>, <<"n","o","t">> >>),
         Ws, Lit(<<"c","a","l","l"," ","m","e">>), Ws, Cap("name")>> >>

NAME_PATTERNS ==
    << <<Lit(<<"c","a","l","l"," ","m","e">>), Ws, Cap("name")>>,
       <<Lit(<<"m","y"," ","n","a","m","e"," ","i","s">>), Ws, Cap("name")>>,
       <<Lit(<<"i"," ","g","o"," ","b","y">>), Ws, Cap("name")>>,
       <<Lit(<<"i","'","m"," ","c","a","l","l","e","d">>), Ws, Cap("name")>>,
       <<Lit(<<"i"," ","a","m"," ","c","a","l","l","e","d">>), Ws, Cap("name")>> >>

Feeling == Opt(<<Lit(<<"f","e","e","l","i","n","g">>), Ws>>)

MOOD_PATTERNS ==
    << <<Wb, Lit(<<"i"," ","f","e","e","l">>), Opt(<<Lit(<<" ","l","i","k","e">>)>>),
         Ws, Cap("alpha"), Wb>>,
       <<Wb, Lit(<<"i"," ","f","e","l","t">>), Ws, Cap("alpha"), Wb>>,
       <<Wb, Lit(<<"t","h","a","t"," ","m","a","d","e"," ","m","e">>), Ws,
         Cap("alpha"), Wb>>,
       <<Wb, Lit(<<"i"," ","a","m">>), Ws, Feeling, Cap("alpha"), Wb>>,
       <<Wb, Lit(<<"i","'","m">>), Ws, Feeling, Cap("alpha"), Wb>> >>

-----------------------------------------------------------------------------
(* The chat loop: chat() and the extraction thread it starts each turn *)

MEMORY_SIZE == 6

\* what the user may type
Utterances ==
    { <<"c","a","l","l"," ","m","e"," ","A","l">>,
      <<"n","e","v","e","r"," ","c","a","l","l"," ","m","e"," ","A","l">>,
      <<"I"," ","f","e","e","l"," ","s","a","d","!">>,
      <<"I","'","m"," ","c","a","l","l","e","d"," ","A","l">>,
      <<"I","'","m"," ","s","a","d",","," ","d","o","n","'","t"," ",
        "c","a","l","l"," ","m","e"," ","A","l">>,
      <<"h","i">> }

\* what the reply stream may add up to
Replies == { <<"o","k"," ">> }

sAB == JStr(<<"a", "b">>)
sC == JStr(<<"c">>)

\* What ollama.chat may return to extract_facts. The content is a text: one
\* that is no JSON document, or the JSON text of a document doc.
NotJson == [message |-> TRUE, json |-> FALSE, doc |-> JNull]
NoMessage == [message |-> FALSE, json |-> FALSE, doc |-> JNull]
JsonText(doc) == [message |-> TRUE, json |-> TRUE, doc |-> doc]

Responses ==
    { NotJson, NoMessage,
      JsonText(JList(<<sA>>)),
      JsonText(JNull),
      JsonText(EmptyDict),
      JsonText(Dict1("Hobby", JList(<<sA, sB>>))),
      JsonText(Dict1("Hobby", JList(<<sB, JNum(7)>>))),
      JsonText(Dict2("Hobby", JList(<<sA, sAB>>), "Skill", JList(<<JNum(7), sA>>))),
      JsonText(Dict1("Hobby",
                     JList(<<Wrapped(sA, 90), Wrapped(sB, 50), Wrapped(sC, 10)>>))),
      JsonText(Dict1("Preference", Wrapped(sA, 90))) }

\* json.loads(response["message"]["content"]): the document, or the exception
\* extract_facts catches
json_loads(resp) ==
    IF ~resp.message THEN [err |-> "KeyError", doc |-> JNull]
    ELSE IF ~resp.json THEN [err |-> "JSONDecodeError", doc |-> JNull]
    ELSE [err |-> "none", doc |-> resp.doc]

\* what FACTS_FILE may hold when the program starts
SavedStores ==
    { EmptyDict, Dict1("Dislike", Entry(sA, Old)), Dict1("Mood", Entry(sA, Old)) }

\* A faulty variant: the append that never evicts
DequeAppendUnbounded(q, record) == Append(q, record)

\* history.append(record) on a deque(maxlen=MEMORY_SIZE)
DequeAppend(q, record) ==
    IF Len(q) < MEMORY_SIZE THEN Append(q, record)
    ELSE Append(Tail(q), record)

\* deque(items, maxlen=MEMORY_SIZE): the items are appended one by one
RECURSIVE DequeFrom(_, _)
DequeFrom(q, items) ==
    IF items = <<>> THEN q
    ELSE DequeFrom(DequeAppend(q, Head(items)), Tail(items))

\* {"history": list(history), "last_chat_time": timestamp()}
SaveData(h, clk) == Dict2("history", JList(h), "last_chat_time", timestamp(clk))

\* user_input = input("you: "), then the extraction thread is started
ReadInput(u) ==
    /\ pc = "input"
    /\ turn < MaxTurns
    /\ turn' = turn + 1
    /\ user_input' = u
    /\ facts_result' = JNull
    /\ xpc' = "patterns"
    /\ pc' = "prompt"
    /\ turn_start' = facts
    /\ response' = JNull
    /\ raised' = "none"
    /\ cand' = EmptyDict
    /\ pre' = facts
    /\ op' = "input"
    /\ UNCHANGED <<facts, clock, seen_facts, ai_output, history, save_file, facts_file>>

\* EOFError or KeyboardInterrupt at the prompt: save and exit
Quit ==
    /\ pc = "input"
    /\ save_file' = SaveData(history, clock)
    /\ clock' = clock + 1
    /\ facts_file' = facts
    /\ pc' = "exited"
    /\ op' = "exit"
    /\ UNCHANGED <<facts, pre, cand, raised, xpc, turn, user_input, response,
                   facts_result, seen_facts, ai_output, history, turn_start>>

\* the fast path of a name or mood pattern: existing_facts[k] = entry, then
\* return dedupe_facts(existing_facts)
SetAndDedupe(k, group) ==
    \E r \in {dedupe_facts(Running(
                  DictSet(facts, k, Entry(JStr(Strip(group)), timestamp(clock))),
                  clock + 1))} :
        /\ facts' = r.facts
        /\ clock' = r.clk
        /\ raised' = r.err
        /\ facts_result' = IF r.err = "none" THEN r.facts ELSE facts_result
        /\ cand' = Dict1(k, JStr(Strip(group)))
        /\ xpc' = "done"

\* A faulty variant: the mood patterns tried before the name patterns
ExtractPatternsMoodFirst ==
    /\ xpc = "patterns"
    /\ LET neg == FirstMatch(NEGATION_PATTERNS, user_input)
           name == FirstMatch(NAME_PATTERNS, user_input)
           mood == FirstMatch(MOOD_PATTERNS, user_input)
       IN  IF neg.found
           THEN /\ facts_result' = facts
                /\ xpc' = "done"
                /\ UNCHANGED <<facts, clock, raised, cand>>
           ELSE IF mood.found THEN SetAndDedupe("Mood", mood.group)
           ELSE IF name.found THEN SetAndDedupe("Name", name.group)
           ELSE /\ xpc' = "oracle"
                /\ UNCHANGED <<facts, clock, raised, cand, facts_result>>
    /\ pre' = facts
    /\ op' = "patterns"
    /\ UNCHANGED <<pc, turn, user_input, response, seen_facts, ai_output, history,
                   save_file, facts_file, turn_start>>

\* A faulty variant: the patterns without the negation guard
ExtractPatternsUnguarded ==
    /\ xpc = "patterns"
    /\ LET name == FirstMatch(NAME_PATTERNS, user_input)
           mood == FirstMatch(MOOD_PATTERNS, user_input)
       IN  IF name.found THEN SetAndDedupe("Name", name.group)
           ELSE IF mood.found THEN SetAndDedupe("Mood", mood.group)
           ELSE /\ xpc' = "oracle"
                /\ UNCHANGED <<facts, clock, raised, cand, facts_result>>
    /\ pre' = facts
    /\ op' = "patterns"
    /\ UNCHANGED <<pc, turn, user_input, response, seen_facts, ai_output, history,
                   save_file, facts_file, turn_start>>

\* extract_facts up to the oracle call: the negation guard, the name patterns,
\* the mood patterns
ExtractPatterns ==
    /\ xpc = "patterns"
    /\ LET neg == FirstMatch(NEGATION_PATTERNS, user_input)
           name == FirstMatch(NAME_PATTERNS, user_input)
           mood == FirstMatch(MOOD_PATTERNS, user_input)
       IN  IF neg.found
           THEN /\ facts_result' = facts
                /\ xpc' = "done"
                /\ UNCHANGED <<facts, clock, raised, cand>>
           ELSE IF name.found THEN SetAndDedupe("Name", name.group)
           ELSE IF mood.found THEN SetAndDedupe("Mood", mood.group)
           ELSE /\ xpc' = "oracle"
                /\ UNCHANGED <<facts, clock, raised, cand, facts_result>>
    /\ pre' = facts
    /\ op' = "patterns"
    /\ UNCHANGED <<pc, turn, user_input, response, seen_facts, ai_output, history,
                   save_file, facts_file, turn_start>>

\* ollama.chat returns in the extraction thread
OracleRespond(resp) ==
    /\ xpc = "oracle"
    /\ response' = resp
    /\ xpc' = "parse"
    /\ op' = "oracle"
    /\ UNCHANGED <<facts, clock, pre, cand, raised, pc, turn, user_input,
                   facts_result, seen_facts, ai_output, history, save_file,
                   facts_file, turn_start>>

\* the try block and merge_facts(existing_facts, new_facts): a caught exception
\* returns the store, any other ends the thread
ExtractMerge ==
    /\ xpc = "parse"
    /\ LET parsed == json_loads(response)
       IN  IF parsed.err # "none"
           THEN /\ facts_result' = facts
                /\ xpc' = "done"
                /\ UNCHANGED <<facts, clock, raised, cand>>
           ELSE \E r \in {merge_facts(Running(facts, clock), parsed.doc)} :
                    /\ facts' = r.facts
                    /\ clock' = r.clk
                    /\ raised' = r.err
                    /\ cand' = parsed.doc
                    /\ xpc' = IF r.err = "none" THEN "dedupe" ELSE "done"
                    /\ UNCHANGED facts_result
    /\ pre' = facts
    /\ op' = "merge"
    /\ UNCHANGED <<pc, turn, user_input, response, seen_facts, ai_output, history,
                   save_file, facts_file, turn_start>>

\* return dedupe_facts(merged)
ExtractDedupe ==
    /\ xpc = "dedupe"
    /\ \E r \in {dedupe_facts(Running(facts, clock))} :
        /\ facts' = r.facts
        /\ raised' = r.err
        /\ facts_result' = IF r.err = "none" THEN r.facts ELSE facts_result
    /\ xpc' = "done"
    /\ op' = "dedupe"
    /\ UNCHANGED <<clock, pre, cand, pc, turn, user_input, response, seen_facts,
                   ai_output, history, save_file, facts_file, turn_start>>

\* what summarize_facts has read when the extraction thread changed the store
\* under its loop: some categories as they were, some as they became, or the
\* RuntimeError of a dict that changed size during iteration
Torn == [t |-> "torn"]

\* build_prompt(user_input, history, facts) is called: summarize_facts starts
\* to read the store the extraction thread works on
BuildPrompt ==
    /\ pc = "prompt"
    /\ seen_facts' = facts
    /\ pc' = "reading"
    /\ op' = "prompt"
    /\ UNCHANGED <<facts, clock, pre, cand, raised, xpc, turn, user_input, response,
                   facts_result, ai_output, history, save_file, facts_file, turn_start>>

\* build_prompt returns: the prompt holds what summarize_facts read, which is
\* the store if the store did not change meanwhile
PromptBuilt ==
    /\ pc = "reading"
    /\ seen_facts' = IF facts = seen_facts THEN seen_facts ELSE Torn
    /\ pc' = "stream"
    /\ op' = "prompted"
    /\ UNCHANGED <<facts, clock, pre, cand, raised, xpc, turn, user_input, response,
                   facts_result, ai_output, history, save_file, facts_file, turn_start>>

\* the reply streams to its end
StreamReply(reply) ==
    /\ pc = "stream"
    /\ ai_output' = reply
    /\ pc' = "append"
    /\ op' = "stream"
    /\ UNCHANGED <<facts, clock, pre, cand, raised, xpc, turn, user_input, response,
                   facts_result, seen_facts, history, save_file, facts_file, turn_start>>

\* history.append({"user": user_input, "bot": ai_output.strip()})
AppendHistory ==
    /\ pc = "append"
    /\ history' = DequeAppend(history,
                              Dict2("user", JStr(user_input), "bot", JStr(Strip(ai_output))))
    /\ pc' = "join"
    /\ op' = "append"
    /\ UNCHANGED <<facts, clock, pre, cand, raised, xpc, turn, user_input, response,
                   facts_result, seen_facts, ai_output, save_file, facts_file, turn_start>>

\* A faulty variant: the main thread goes on to save without waiting for the
\* extraction thread
JoinWithoutWaiting ==
    /\ pc = "join"
    /\ facts' = IF facts_result # JNull THEN facts_result ELSE facts
    /\ pc' = "save"
    /\ op' = "join"
    /\ UNCHANGED <<clock, pre, cand, raised, xpc, turn, user_input, response,
                   facts_result, seen_facts, ai_output, history, save_file,
                   facts_file, turn_start>>

\* extractor_thread.join(), then facts = facts_result["value"] unless it is None
Join ==
    /\ pc = "join"
    /\ xpc = "done"
    /\ facts' = IF facts_result # JNull THEN facts_result ELSE facts
    /\ xpc' = "idle"
    /\ pc' = "save"
    /\ op' = "join"
    /\ UNCHANGED <<clock, pre, cand, raised, turn, user_input, response, facts_result,
                   seen_facts, ai_output, history, save_file, facts_file, turn_start>>

\* save after each turn
Save ==
    /\ pc = "save"
    /\ save_file' = SaveData(history, clock)
    /\ clock' = clock + 1
    /\ facts_file' = facts
    /\ pc' = "input"
    /\ op' = "save"
    /\ UNCHANGED <<facts, pre, cand, raised, xpc, turn, user_input, response,
                   facts_result, seen_facts, ai_output, history, turn_start>>

\* KeyboardInterrupt in the main thread between the start of the extraction
\* thread and the save of the turn: no except clause is around, chat() ends
\* with the exception and nothing is written. The extraction thread is not a
\* daemon: it runs on to its end.
Interrupt ==
    /\ pc \in {"prompt", "reading", "stream", "append", "join"}
    /\ pc' = "exited"
    /\ op' = "interrupt"
    /\ UNCHANGED <<facts, clock, pre, cand, raised, xpc, turn, user_input, response,
                   facts_result, seen_facts, ai_output, history, save_file,
                   facts_file, turn_start>>

\* chat() up to the loop: the history and the facts are loaded, the facts
\* normalized
Init ==
    /\ facts_file \in SavedStores
    /\ facts = normalize_facts(facts_file, 0).v
    /\ clock = normalize_facts(facts_file, 0).clk
    /\ save_file = EmptyDict
    /\ history = <<>>
    /\ pc = "input"
    /\ xpc = "idle"
    /\ turn = 0
    /\ user_input = <<>>
    /\ response = JNull
    /\ facts_result = JNull
    /\ seen_facts = JNull
    /\ ai_output = <<>>
    /\ turn_start = facts
    /\ op = "init"
    /\ pre = facts
    /\ cand = EmptyDict
    /\ raised = "none"

Next ==
    \/ \E u \in Utterances : ReadInput(u)
    \/ Quit
    \/ ExtractPatterns
    \/ \E resp \in Responses : OracleRespond(resp)
    \/ ExtractMerge
    \/ ExtractDedupe
    \/ BuildPrompt
    \/ PromptBuilt
    \/ \E reply \in Replies : StreamReply(reply)
    \/ AppendHistory
    \/ Join
    \/ Save
    \/ Interrupt

Spec == Init /\ [][Next]_vars

-----------------------------------------------------------------------------
(* C5 *)

\* the oracle's text is no JSON, or is the JSON of something that is no object
Malformed(resp) ==
    /\ resp # JNull
    /\ resp.message
    /\ ~resp.json \/ ~IsDict(resp.doc)

\* C5: when the oracle's response is not parseable as JSON or parses to
\* something that is not an object, extract_facts raises nothing and returns
\* the store with the content it was given, and the store in use and saved at
\* the end of the turn equals the pre-turn store.
C5_MalformedResponseIsNoOp ==
    Malformed(response) =>
        /\ raised = "none"
        /\ PyEq(facts, turn_start)
        /\ xpc \in {"done", "idle"} => PyEq(facts_result, turn_start)
        /\ op = "save" => PyEq(facts_file, turn_start)

-----------------------------------------------------------------------------
(* C6 *)

\* C6: the store written at the end of a turn is the pre-turn store or the
\* complete result of merge followed by dedupe on the turn's whole candidate
\* set (merged at some time c of the turn), never anything in between.
C6_NoPartialStoreWritten ==
    op = "save" =>
        \/ PyEq(facts_file, turn_start)
        \/ \E c \in 0..clock :
               LET r == dedupe_facts(merge_facts(Running(turn_start, c), cand))
               IN  r.err = "none" /\ PyEq(facts_file, r.facts)

-----------------------------------------------------------------------------
(* C7 and C8: the capacity of the store *)

\* The capacity is named by the specification only: chatbot.py defines no
\* MAX_FACTS and no pruning step. The value is the one of the specification's
\* pruning example.
MAX_FACTS == 2

\* the (category, entry) pairs of a store
PairsOf(f) ==
    UNION { {[k |-> k, e |-> EntriesOf(f, k)[i]] : i \in 1..Len(EntriesOf(f, k))}
            : k \in DOMAIN f.at }

\* how many entries a store holds, over all its categories
RECURSIVE CountEntries(_, _)
CountEntries(f, keys) ==
    IF keys = <<>> THEN 0
    ELSE Len(EntriesOf(f, Head(keys))) + CountEntries(f, Tail(keys))

TotalEntries(f) == CountEntries(f, f.keys)

\* C7: after every completed turn the store holds at most MAX_FACTS entries,
\* counted over all categories.
C7_StoreWithinCapacity ==
    op = "save" =>
        /\ TotalEntries(facts) <= MAX_FACTS
        /\ TotalEntries(facts_file) <= MAX_FACTS

\* the scorer of the specification: the score given, else 10 for an empty or
\* "unknown" value, else 50
Significance(e) ==
    IF HasKey(e, "significance") THEN e.at["significance"].n
    ELSE IF /\ IsStr(e.at["value"])
            /\ Lower(Strip(e.at["value"].s)) \in {<<>>, <<"u","n","k","n","o","w","n">>}
         THEN 10
    ELSE 50

\* the characters of a timestamp, in their order
CharOrder == <<"-", "0", "1", "2", "3", "4", "5", "6", "7", "8", "9", "T">>

CharRank(c) == CHOOSE i \in 1..Len(CharOrder) : CharOrder[i] = c

\* a < b for two timestamps of the same length
StrLess(a, b) ==
    \E i \in 1..Len(a) :
        /\ CharRank(a[i]) < CharRank(b[i])
        /\ \A j \in 1..(i - 1) : a[j] = b[j]

\* d comes before e in the pruner's order: higher significance first, then
\* the more recent timestamp
Outranks(d, e) ==
    \/ Significance(d) > Significance(e)
    \/ /\ Significance(d) = Significance(e)
       /\ StrLess(e.at["timestamp"].s, d.at["timestamp"].s)

\* C8: the store saved after a turn holds exactly the top MAX_FACTS entries of
\* what merge and dedupe produced: all of them when there are no more than
\* MAX_FACTS, else MAX_FACTS of them, and no entry left out comes before a kept
\* one in the order (significance descending, timestamp descending).
C8_SavedStoreIsTopK ==
    (op = "save" /\ facts_result # JNull) =>
        /\ PairsOf(facts_file) \subseteq PairsOf(facts_result)
        /\ TotalEntries(facts_file) =
               IF TotalEntries(facts_result) <= MAX_FACTS
               THEN TotalEntries(facts_result) ELSE MAX_FACTS
        /\ \A d \in PairsOf(facts_result) \ PairsOf(facts_file) :
               \A e \in PairsOf(facts_file) : ~Outranks(d.e, e.e)

-----------------------------------------------------------------------------
(* C11 *)

\* an entry in canonical format: a value that is a scalar, a timestamp, and
\* possibly a significance, and nothing else
IsCanonicalEntry(e) ==
    /\ IsFactEntry(e)
    /\ DOMAIN e.at \subseteq {"value", "timestamp", "significance"}
    /\ IsScalar(e.at["value"])
    /\ IsStr(e.at["timestamp"])
    /\ HasKey(e, "significance") => e.at["significance"].t = "num"

\* a store in canonical format: every category maps to a canonical entry or to
\* a list of canonical entries
IsCanonicalStore(f) ==
    \A k \in DOMAIN f.at :
        \/ IsCanonicalEntry(f.at[k])
        \/ /\ IsList(f.at[k])
           /\ \A i \in 1..Len(f.at[k].l) : IsCanonicalEntry(f.at[k].l[i])

\* C11: normalize_facts given a store in canonical format raises nothing and
\* returns an equal store: every entry keeps its value, its timestamp and, when
\* it has one, its significance.
C11_CanonicalRoundTrip ==
    (op \in {"normalize", "renormalize"} /\ IsCanonicalStore(pre))
        => (raised = "none" /\ PyEq(facts, pre))

\* the part of C11 that holds: a canonical store none of whose entries has a
\* significance comes back equal
C11_RoundTripWithoutSignificance ==
    (/\ op \in {"normalize", "renormalize"}
     /\ IsCanonicalStore(pre)
     /\ \A k \in DOMAIN pre.at :
            \A i \in 1..Len(EntriesOf(pre, k)) :
                ~HasKey(EntriesOf(pre, k)[i], "significance"))
        => (raised = "none" /\ PyEq(facts, pre))

-----------------------------------------------------------------------------
(* dedupe_facts on the lists a store may hold *)

\* the values of the entries: one inside another, equal after strip and lower,
\* the empty string
DedupeValues ==
    { sA, sAB, sB, JStr(<<" ", "A">>), JStr(<<>>) }

\* the sequences over S of length at most n
SeqsUpTo(S, n) == UNION { [1..m -> S] : m \in 0..n }

\* entries with the values vs, stamped in the order they were added
Stamped(vs) == [i \in 1..Len(vs) |-> Entry(vs[i], timestamp(i))]

\* stores with a singleton and a list; with two lists; with a value that is no
\* string
DedupeStores ==
    { Dict2("Name", Entry(JStr(<<" ", "A">>), Old), "Hobby", JList(Stamped(vs)))
          : vs \in SeqsUpTo(DedupeValues, MaxList) }
    \cup { Dict2("Hobby", JList(Stamped(<<sA, sAB>>)),
                 "Skill", JList(Stamped(<<sAB, sB, sA>>))),
           Dict2("Hobby", JList(Stamped(<<sA, sA>>)),
                 "Skill", JList(Stamped(<<sA, JNum(7)>>))) }

InitDedupe ==
    /\ facts \in DedupeStores
    /\ clock = 0
    /\ op = "init"
    /\ pre = facts
    /\ cand = EmptyDict
    /\ raised = "none"
    /\ NoChat

NextDedupe == Dedupe

\* dedupe_facts called on a store that holds lists
SpecDedupe == InitDedupe /\ [][NextDedupe]_vars

-----------------------------------------------------------------------------
(* C12 *)

\* the value two entries are compared by
DedupeKey(e) == Lower(Strip(e.at["value"].s))

\* u is o with some of its elements left out
RECURSIVE IsSubsequence(_, _)
IsSubsequence(u, o) ==
    IF u = <<>> THEN TRUE
    ELSE IF o = <<>> THEN FALSE
    ELSE IF Head(u) = Head(o) THEN IsSubsequence(Tail(u), Tail(o))
    ELSE IsSubsequence(u, Tail(o))

\* C12: after dedupe_facts returns, in every list category no two surviving
\* entries have lowercase-trimmed values one of which is a substring of the
\* other; the survivors are a subsequence of the original list, the first entry
\* of a list survives, and the categories that hold no list are unchanged.
C12_DedupeSurvivors ==
    (op = "dedupe" /\ raised = "none") =>
        /\ DOMAIN facts.at = DOMAIN pre.at
        /\ \A k \in DOMAIN pre.at :
               IF IsList(pre.at[k])
               THEN /\ IsList(facts.at[k])
                    /\ LET o == pre.at[k].l
                           u == facts.at[k].l
                       IN  /\ \A i, j \in 1..Len(u) :
                                  i # j => ~IsSubstr(DedupeKey(u[i]), DedupeKey(u[j]))
                           /\ IsSubsequence(u, o)
                           /\ o # <<>> => (u # <<>> /\ u[1] = o[1])
               ELSE facts.at[k] = pre.at[k]

\* a list of "a" and "ab" is deduplicated to its first entry, and the Name
\* entry next to it is unchanged
C12_Witness ==
    /\ op = "dedupe"
    /\ raised = "none"
    /\ pre.at["Hobby"] = JList(Stamped(<<sA, sAB>>))
    /\ facts.at["Hobby"] = JList(<<Entry(sA, timestamp(1))>>)
    /\ HasKey(facts, "Name")

-----------------------------------------------------------------------------
(* C13 *)

\* ollama.chat has been called by the extraction thread in the turn
OracleCalled == xpc \in {"oracle", "parse", "dedupe"} \/ response # JNull

\* what re.search finds in each utterance: the first negation, name and mood
\* pattern that matches
MatchesOf ==
    [u \in Utterances |->
        [neg |-> FirstMatch(NEGATION_PATTERNS, u),
         name |-> FirstMatch(NAME_PATTERNS, u),
         mood |-> FirstMatch(MOOD_PATTERNS, u)]]

C13_MoodReplaced ==
    /\ xpc = "done"
    /\ user_input = <<"I"," ","f","e","e","l"," ","s","a","d","!">>
    /\ Held(turn_start, "Mood") = Entry(sA, Old)
    /\ facts.at["Mood"].at["value"] = JStr(<<"s","a","d">>)
    /\ response = JNull

-----------------------------------------------------------------------------
(* The chat loop started on a saved conversation *)

\* a turn record of an earlier run
OldTurn(i) == Dict2("user", JStr(<<"q", Digits[i + 1]>>), "bot", JStr(<<"r">>))

\* what SAVE_FILE may hold under "history": one record short of the window,
\* a full window, more than a window
LoadedHistories ==
    { [i \in 1..n |-> OldTurn(i)]
          : n \in {MEMORY_SIZE - 1, MEMORY_SIZE, MEMORY_SIZE + 2} }

\* chat() up to the loop, with a conversation in SAVE_FILE and no facts file
InitHistory ==
    /\ \E loaded \in LoadedHistories :
           /\ save_file = Dict2("history", JList(loaded), "last_chat_time", Old)
           /\ history = DequeFrom(<<>>, loaded)
    /\ facts_file = EmptyDict
    /\ facts = EmptyDict
    /\ clock = 0
    /\ pc = "input"
    /\ xpc = "idle"
    /\ turn = 0
    /\ user_input = <<>>
    /\ response = JNull
    /\ facts_result = JNull
    /\ seen_facts = JNull
    /\ ai_output = <<>>
    /\ turn_start = facts
    /\ op = "init"
    /\ pre = facts
    /\ cand = EmptyDict
    /\ raised = "none"

SpecHistory == InitHistory /\ [][Next]_vars

-----------------------------------------------------------------------------
(* C14 *)

\* the last n elements of s, in their order
LastOf(s, n) == IF Len(s) <= n THEN s ELSE SubSeq(s, Len(s) - n + 1, Len(s))

\* the history the save file holds
SavedHistory == IF HasKey(save_file, "history") THEN save_file.at["history"].l ELSE <<>>

\* the record of the turn in progress
TurnRecord == Dict2("user", JStr(user_input), "bot", JStr(Strip(ai_output)))

\* C14: the history never holds more than MEMORY_SIZE records. When the
\* program starts it holds the last MEMORY_SIZE records of the loaded history,
\* in their order; after the append of a turn it holds the last MEMORY_SIZE of
\* the records it held before followed by the turn's record, so that a full
\* window loses exactly its oldest record; and what is saved is the window.
C14_HistoryWindow ==
    /\ Len(history) <= MEMORY_SIZE
    /\ op = "init" => history = LastOf(SavedHistory, MEMORY_SIZE)
    /\ pc = "join" =>
           LET before == LastOf(SavedHistory, MEMORY_SIZE)
           IN  /\ history = LastOf(Append(before, TurnRecord), MEMORY_SIZE)
               /\ Len(before) = MEMORY_SIZE =>
                      history = Append(Tail(before), TurnRecord)
    /\ op \in {"save", "exit"} => SavedHistory = history

\* a loaded history of MEMORY_SIZE + 2 records, then two turns: the window
\* holds the loaded records 5 to 8 and the two turns, in that order
C14_Witness ==
    /\ pc = "join"
    /\ turn = 2
    /\ Len(history) = MEMORY_SIZE
    /\ history[1] = OldTurn(5)
    /\ history[4] = OldTurn(8)
    /\ history[6] = TurnRecord

-----------------------------------------------------------------------------
(* C15 *)

\* a step that writes the facts file or the save file
WritesFiles == facts_file' # facts_file \/ save_file' # save_file

\* the extraction thread of the turn has ended and has been joined, or no turn
\* has started
ExtractionJoined == xpc = "idle"

\* the reply of the turn has streamed to its end and is in the history
ReplyComplete ==
    /\ ai_output \in Replies
    /\ history # <<>>
    /\ history[Len(history)] = TurnRecord

\* C15: a step writes the facts file or the save file only when the extraction
\* thread has been joined and, within a turn, the reply has streamed to its
\* end; and the main thread's steps up to the join (the prompt, the stream, the
\* append) are enabled whatever the extraction thread is doing, so the reply
\* never waits for the extraction.
C15_WriteAfterJoinReplyFree ==
    /\ [][WritesFiles =>
              /\ ExtractionJoined
              /\ pc \in {"save", "input"}
              /\ pc = "save" => ReplyComplete]_vars
    /\ [](pc = "prompt" => ENABLED BuildPrompt)
    /\ [](pc = "reading" => ENABLED PromptBuilt)
    /\ [](pc = "stream" => ENABLED (\E reply \in Replies : StreamReply(reply)))
    /\ [](pc = "append" => ENABLED AppendHistory)

\* the reply has streamed to its end and is in the history while the extraction
\* thread still waits for the oracle, and nothing has been written in the turn
C15_Witness ==
    /\ pc = "join"
    /\ xpc = "oracle"
    /\ ReplyComplete
    /\ facts_file = turn_start
    /\ SavedHistory = <<>>

\* the files are written at the end of a turn, after the join
C15_Written ==
    /\ op = "save"
    /\ ExtractionJoined
    /\ SavedHistory = history
    /\ history # <<>>

-----------------------------------------------------------------------------
(* C16 *)

\* the values the candidate asserts under category k
AssertedUnder(new, k) ==
    IF HasKey(new, k)
    THEN {Applied(new.at[k])[i] : i \in 1..Len(Applied(new.at[k]))}
    ELSE {}

\* C16: after a merge, every entry a multi-value category held before is still
\* in the category, the same entry with its value and its timestamp, unless the
\* candidate asserts its value under the opposite category (the contradiction
\* rule); the entries kept are in the order they had; a value that was stored
\* and is asserted again gets no second entry; and a category that is neither
\* in the candidate nor the opposite of a Preference or Dislike of the
\* candidate is exactly as it was.
C16_MergeKeepsEntries ==
    op = "merge" =>
        /\ \A k \in DOMAIN pre.at \ ClaimedSingletons :
               LET gone == AssertedUnder(cand, Opposite(k))
                   stay == SelectSeq(EntriesOf(pre, k),
                                     LAMBDA e : e.at["value"] \notin gone)
               IN  /\ IsSubsequence(stay, EntriesOf(facts, k))
                   /\ \A v \in AssertedUnder(cand, k) \ gone :
                          v \in ValuesOf(pre, k) =>
                              CountOf(facts, k, v) = CountOf(pre, k, v)
        /\ \A k \in (DOMAIN pre.at \cup DOMAIN facts.at) :
               (k \notin DOMAIN cand.at /\ ~HasKey(cand, Opposite(k)))
                   => Held(facts, k) = Held(pre, k)

\* "b" is asserted again under Hobby, which held it as a single entry: the
\* entry is kept with its old timestamp, now in a list of one, although the
\* clock was read; Dislike is as it was
C16_Witness ==
    /\ op = "merge"
    /\ cand = Dict1("Hobby", sB)
    /\ Held(pre, "Hobby") = Entry(sB, Old)
    /\ Held(facts, "Hobby") = JList(<<Entry(sB, Old)>>)
    /\ clock > 0
    /\ Len(EntriesOf(facts, "Dislike")) = 2

-----------------------------------------------------------------------------
(* C17 *)

\* the extraction of the turn had returned its store when the main thread was
\* interrupted
ExtractionCompleted == xpc = "done" /\ facts_result # JNull

\* C17: when the process has just been ended by an interruption, at the input
\* prompt or in mid-turn, the facts file holds the store that existed then: the
\* store the extraction returned if the turn's extraction had completed, else
\* the pre-turn store.
C17_InterruptPersistsStore ==
    /\ op = "exit" => PyEq(facts_file, facts)
    /\ op = "interrupt" =>
           IF ExtractionCompleted THEN PyEq(facts_file, facts_result)
           ELSE PyEq(facts_file, turn_start)

\* the part of C17 that holds: an interruption at the input prompt writes the
\* store and the history
C17_InterruptAtPromptSaves ==
    op = "exit" => (PyEq(facts_file, facts) /\ SavedHistory = history)

-----------------------------------------------------------------------------
(* C18 *)

\* C18: in a turn whose utterance matches the negation pattern, the store is
\* the pre-turn store throughout: no Name and no Mood is set although a name or
\* a mood pattern matches as well, the oracle is not called, nothing is
\* raised, extract_facts returns the store it was given, and the store saved
\* at the end of the turn is the pre-turn store.
C18_NegationLeavesStore ==
    (turn > 0 /\ MatchesOf[user_input].neg.found) =>
        /\ facts = turn_start
        /\ raised = "none"
        /\ ~OracleCalled
        /\ xpc \in {"done", "idle"} => facts_result = turn_start
        /\ op = "save" => facts_file = turn_start

\* "never call me Al" matches the negation pattern and the name pattern: the
\* turn is saved with no Name in the store
C18_Witness ==
    /\ op = "save"
    /\ user_input = <<"n","e","v","e","r"," ","c","a","l","l"," ","m","e"," ","A","l">>
    /\ MatchesOf[user_input].name.found
    /\ ~HasKey(facts_file, "Name")
    /\ facts_file = turn_start

\* "I'm sad, don't call me Al" matches the negation, a name and a mood
\* pattern: the loaded Mood is kept and no Name is set
C18_MoodNotApplied ==
    /\ op = "save"
    /\ MatchesOf[user_input].neg.found
    /\ MatchesOf[user_input].name.found
    /\ MatchesOf[user_input].mood.found
    /\ Held(facts_file, "Mood") = Entry(sA, Old)
    /\ ~HasKey(facts_file, "Name")

-----------------------------------------------------------------------------
(* C19 *)

\* C19: once the prompt of a turn is built, what build_prompt read is the
\* pre-turn store, whole; and while build_prompt reads, the store is not one
\* the extraction thread has changed under the reader, nor one it has merged
\* into and not yet deduplicated.
C19_PromptFromPreTurnStore ==
    /\ (turn > 0 /\ pc \in {"stream", "append", "join", "save"}) =>
           (seen_facts # Torn /\ PyEq(seen_facts, turn_start))
    /\ pc = "reading" => (facts = seen_facts /\ xpc # "dedupe")

\* the part of C19 that holds: a prompt built while the extraction thread has
\* not yet changed the store is built from the pre-turn store
C19_PromptBeforeExtraction ==
    (pc = "stream" /\ xpc \in {"patterns", "oracle", "parse"}) =>
        seen_facts = turn_start

-----------------------------------------------------------------------------
(* C20 *)

\* C20: starting from an empty store, no category maps to an empty list. After
\* a merge, a Preference or Dislike category that the candidate does not name
\* and all of whose values the candidate asserts under the opposite category
\* is absent; after a dedupe, every category that held a list of at least one
\* entry holds a list of at least one entry.
C20_NoEmptyCategory ==
    /\ \A k \in DOMAIN facts.at : facts.at[k] # JList(<<>>)
    /\ op = "merge" =>
           \A k \in {"Preference", "Dislike"} :
               (/\ HasKey(pre, k)
                /\ ~HasKey(cand, k)
                /\ ValuesOf(pre, k) \subseteq AssertedUnder(cand, Opposite(k)))
                   => ~HasKey(facts, k)
    /\ op = "dedupe" =>
           \A k \in DOMAIN pre.at :
               (IsList(pre.at[k]) /\ pre.at[k].l # <<>>)
                   => (HasKey(facts, k) /\ IsList(facts.at[k]) /\ facts.at[k].l # <<>>)

\* the last entry of a list under Dislike is removed by a Preference, and the
\* Dislike key is deleted
C20_Witness ==
    /\ op = "merge"
    /\ IsList(Held(pre, "Dislike"))
    /\ HasKey(cand, "Preference")
    /\ ~HasKey(cand, "Dislike")
    /\ ~HasKey(facts, "Dislike")
    /\ HasKey(facts, "Preference")

\* a dedupe leaves a list of one entry as it is
C20_DedupeKeepsList ==
    /\ op = "dedupe"
    /\ \E k \in DOMAIN pre.at : IsList(pre.at[k]) /\ Len(pre.at[k].l) = 1
    /\ facts = pre

====
